---- MODULE Spec2Model ----
(***************************************************************************)
(* ClaimChain owner state (State), block payload (Payload) and reader      *)
(* view (View) of claimchain/state.py.                                     *)
(*                                                                         *)
(* Cryptography is symbolic: a hash, a VRF value, a DH secret, a           *)
(* ciphertext and a signature are records of their inputs, so two of them  *)
(* are equal exactly when their inputs are equal, and a ciphertext opens   *)
(* only under the key it was sealed with.                                  *)
(***************************************************************************)
EXTENDS Integers, Sequences, FiniteSets, TLC

\* ---------------------------------------------------------------- domains
Labels     == {"email", "phone"}
Contents   == {"a@x", "b@y"}
Principals == {"O", "R1", "R2"}   \* holders of a LocalParams key bundle
Owners     == {"O"}               \* default LocalParams in force at a commit
Readers    == {"R1", "R2"}        \* dh_pk values used in grant/revoke
Nonces     == {"n1", "n2"}
Timestamps == {"t"}

MaxCalls == 5                     \* State method calls explored per run

PROTOCOL_VERSION == 1

\* Python None, for record-valued and for string-valued slots
None    == [none |-> TRUE]
NoneArg == "None"
Unset   == "unset"                \* attribute never assigned

\* ------------------------------------------------------------ utils (codec)
bytes2ascii(b) == [b64 |-> b]
ascii2bytes(a) == a.b64
pet2ascii(p)   == [pet |-> p]
ascii2pet(a)   == a.pet

\* ------------------------------------------------------------------ crypto
\* LocalParams of principal p and their public export
LocalParams(p) ==
    [sig |-> [sk |-> <<"sig_sk", p>>, pk |-> <<"sig_pk", p>>],
     vrf |-> [sk |-> <<"vrf_sk", p>>, pk |-> <<"vrf_pk", p>>],
     dh  |-> [sk |-> <<"dh_sk", p>>,  pk |-> <<"dh_pk", p>>]]

public_export(lp) ==
    [sig |-> [pk |-> lp.sig.pk],
     vrf |-> [pk |-> lp.vrf.pk],
     dh  |-> [pk |-> lp.dh.pk]]

from_dict(exported) == exported

\* key pairs match when they belong to the same principal
PkOf(sk) == IF sk[1] = "sig_sk" THEN <<"sig_pk", sk[2]>>
            ELSE IF sk[1] = "vrf_sk" THEN <<"vrf_pk", sk[2]>>
            ELSE <<"dh_pk", sk[2]>>

sign(lp, msg) == [signer |-> PkOf(lp.sig.sk), msg |-> msg]

verify_signature(pk, sig, msg) == sig.signer = pk /\ sig.msg = msg

\* DH shared secret of a secret key and the other side's public key
dh_shared(sk, other_pk) == {PkOf(sk), other_pk}

\* ------------------------------------------------------------ core (codec)
vrf_eval(sk, nonce, label) ==
    [vrf_of |-> PkOf(sk), nonce |-> nonce, label |-> label]

vrf_verify(pk, nonce, label, value) ==
    value = [vrf_of |-> pk, nonce |-> nonce, label |-> label]

_compute_claim_key(vrf_value, mode) == [mode |-> mode, vrf |-> vrf_value]

\* encode_claim: (vrf_value, lookup_key, enc_claim)
encode_claim(lp, nonce, claim_label, claim_content) ==
    LET vrf_value == vrf_eval(lp.vrf.sk, nonce, claim_label)
    IN  [vrf_value  |-> vrf_value,
         lookup_key |-> _compute_claim_key(vrf_value, "lookup"),
         enc_claim  |-> [enc_key |-> _compute_claim_key(vrf_value, "enc"),
                         nonce   |-> nonce,
                         aad     |-> claim_label,
                         claim   |-> claim_content]]

DecodeError == "DecodeError"

\* decode_claim: the content, or DecodeError on VRF or AEAD failure
decode_claim(owner_vrf_pk, nonce, claim_label, vrf_value, enc_claim) ==
    IF /\ vrf_verify(owner_vrf_pk, nonce, claim_label, vrf_value)
       /\ enc_claim.enc_key = _compute_claim_key(vrf_value, "enc")
       /\ enc_claim.nonce = nonce
       /\ enc_claim.aad = claim_label
    THEN enc_claim.claim
    ELSE DecodeError

get_capability_lookup_key(lp, other_dh_pk, nonce, claim_label) ==
    [cap_mode |-> "cap-lookup",
     shared   |-> dh_shared(lp.dh.sk, other_dh_pk),
     nonce    |-> nonce,
     label    |-> claim_label]

_cap_enc_key(lp, other_dh_pk, nonce, claim_label) ==
    [cap_mode |-> "cap-enc",
     shared   |-> dh_shared(lp.dh.sk, other_dh_pk),
     nonce    |-> nonce,
     label    |-> claim_label]

\* encode_capability: (lookup_key, enc_cap)
encode_capability(lp, reader_dh_pk, nonce, claim_label, vrf_value) ==
    [lookup_key |-> get_capability_lookup_key(lp, reader_dh_pk, nonce,
                                              claim_label),
     enc_cap    |-> [cap_key   |-> _cap_enc_key(lp, reader_dh_pk, nonce,
                                                claim_label),
                     nonce     |-> nonce,
                     aad       |-> claim_label,
                     vrf_value |-> vrf_value]]

\* decode_capability: (vrf_value, claim_lookup_key), or DecodeError
decode_capability(lp, owner_dh_pk, nonce, claim_label, cap) ==
    IF /\ cap.cap_key = _cap_enc_key(lp, owner_dh_pk, nonce, claim_label)
       /\ cap.nonce = nonce
       /\ cap.aad = claim_label
    THEN [ok |-> TRUE, vrf_value |-> cap.vrf_value,
          claim_lookup_key |-> _compute_claim_key(cap.vrf_value, "lookup")]
    ELSE [ok |-> FALSE]

\* ------------------------------------------------- hippiehug tree and chain
EmptyMap == [k \in {} |-> None]

Put(m, k, v) == [x \in (DOMAIN m) \cup {k} |-> IF x = k THEN v ELSE m[x]]

\* root hash of a tree holding the given entries; None for the empty tree
RootHash(entries) ==
    IF DOMAIN entries = {} THEN None ELSE [root_of |-> entries]

\* hash of a block over index, fingers, items and aux
BlockHash(block) == [hash_of |-> block]

\* ------------------------------------------------------------------ state
VARIABLES
    claim_content_by_label,   \* State._claim_content_by_label: label -> content
    caps_by_reader_pk,        \* State._caps_by_reader_pk: reader -> set of labels
    caps_order,               \* order in which each of these sets iterates
    enc_items_map,            \* State._enc_items_map of the last commit
    vrf_value_by_label,       \* State._vrf_value_by_label of the last commit
    state_payload,            \* State._payload
    state_tree,               \* State._tree
    state_nonce,              \* State._nonce
    blocks,                   \* the chain's blocks as held in chain.store
    head,                     \* chain.head
    store,                    \* entry maps of the trees held in chain.store
    calls,                    \* number of State method calls made so far
    hist,                     \* history: what the caller asked for so far
    opened,                   \* the View object the caller keeps, or None
    returned                  \* what the latest query of the State returned

vars == <<claim_content_by_label, caps_by_reader_pk, caps_order,
          enc_items_map, vrf_value_by_label, state_payload, state_tree,
          state_nonce, blocks, head, store, calls, hist, opened, returned>>

stagingVars == <<claim_content_by_label, caps_by_reader_pk, caps_order>>
capsVars    == <<caps_by_reader_pk, caps_order>>
callerVars  == <<opened, returned>>
cacheVars   == <<enc_items_map, vrf_value_by_label, state_payload,
                 state_tree, state_nonce>>
chainVars   == <<blocks, head, store>>

identity_info == None

\* one more State method call, within the explored number of calls
Call == calls < MaxCalls /\ calls' = calls + 1

\* History of the calls, kept beside the program's state and never read by
\* it.  last_set: the content last passed to set for each label since creation
\* or the last clear; revoked: per reader, the labels granted, then revoked and
\* not granted again; since_clear: a commit returned since creation or the
\* last clear; commit: what the latest commit was called on and the entry
\* map it handed to _build_tree; grants: per reader, the union of the labels
\* granted minus the labels revoked, in call order, since creation or the
\* last clear; commits: the number of commits that returned; prev_claims: the
\* claims the commit before the latest was called on; asked: what the State
\* held at the time of the latest query (the reader's grant set for
\* get_capabilities; the index, entry map and nonce of the cache for
\* compute_evidence_keys).
NoCommit == [none |-> TRUE]
NoResult == [none |-> TRUE]

HistInit ==
    [last_set    |-> EmptyMap,
     revoked     |-> [r \in Readers |-> {}],
     grants      |-> [r \in Readers |-> {}],
     since_clear |-> FALSE,
     commits     |-> 0,
     asked       |-> NoResult,
     prev_claims |-> EmptyMap,
     commit      |-> NoCommit]

\* State.__init__ and an empty hippiehug.Chain
Init ==
    /\ claim_content_by_label = EmptyMap
    /\ caps_by_reader_pk = [r \in Readers |-> {}]
    /\ enc_items_map = EmptyMap
    /\ vrf_value_by_label = EmptyMap
    /\ state_payload = None
    /\ state_tree = None
    /\ state_nonce = Unset
    /\ blocks = <<>>
    /\ head = None
    /\ store = {}
    /\ caps_order = [r \in Readers |-> <<>>]
    /\ calls = 0
    /\ hist = HistInit
    /\ opened = None
    /\ returned = NoResult

\* ------------------------------------------------------------- State staging
\* __setitem__ that keeps the content already staged for a label
SetItem_KeepFirst(claim_label, claim_content) ==
    /\ Call
    /\ claim_content_by_label' =
           IF claim_label \in DOMAIN claim_content_by_label
           THEN claim_content_by_label
           ELSE Put(claim_content_by_label, claim_label, claim_content)
    /\ hist' = [hist EXCEPT !.last_set =
                    [l \in (DOMAIN @) \cup {claim_label} |->
                        IF l = claim_label THEN claim_content ELSE @[l]]]
    /\ UNCHANGED <<capsVars, cacheVars, chainVars, callerVars>>

\* State.__setitem__
SetItem(claim_label, claim_content) ==
    /\ Call
    /\ claim_content_by_label' =
           Put(claim_content_by_label, claim_label, claim_content)
    /\ hist' = [hist EXCEPT !.last_set =
                    [l \in (DOMAIN @) \cup {claim_label} |->
                        IF l = claim_label THEN claim_content ELSE @[l]]]
    /\ UNCHANGED <<capsVars, cacheVars, chainVars, callerVars>>

\* the orders in which iterating a set of labels can yield its elements
Perms(S) ==
    {f \in [1..Cardinality(S) -> S] :
        \A i, j \in 1..Cardinality(S) : f[i] = f[j] => i = j}

\* A set that grant_access or revoke_access changed iterates from then on in
\* some order of its elements; a set left as it was keeps its order.
Reordered(reader_dh_pk) ==
    IF caps_by_reader_pk'[reader_dh_pk] = caps_by_reader_pk[reader_dh_pk]
    THEN caps_order' = caps_order
    ELSE \E order \in Perms(caps_by_reader_pk'[reader_dh_pk]) :
             caps_order' = [caps_order EXCEPT ![reader_dh_pk] = order]

\* grant_access that replaces the reader's set by the labels given
grant_access_Replace(reader_dh_pk, claim_labels) ==
    /\ Call
    /\ caps_by_reader_pk' =
           [caps_by_reader_pk EXCEPT ![reader_dh_pk] = claim_labels]
    /\ Reordered(reader_dh_pk)
    /\ hist' = [hist EXCEPT !.revoked[reader_dh_pk] = @ \ claim_labels,
                            !.grants[reader_dh_pk] = @ \cup claim_labels]
    /\ UNCHANGED <<claim_content_by_label, cacheVars, chainVars, callerVars>>

\* State.grant_access
grant_access(reader_dh_pk, claim_labels) ==
    /\ Call
    /\ caps_by_reader_pk' =
           [caps_by_reader_pk EXCEPT ![reader_dh_pk] = @ \cup claim_labels]
    /\ Reordered(reader_dh_pk)
    /\ hist' = [hist EXCEPT !.revoked[reader_dh_pk] = @ \ claim_labels,
                            !.grants[reader_dh_pk] = @ \cup claim_labels]
    /\ UNCHANGED <<claim_content_by_label, cacheVars, chainVars, callerVars>>

\* revoke_access that subtracts from a copy of the grant set
revoke_access_OnCopy(reader_dh_pk, claim_labels) ==
    /\ Call
    /\ caps_by_reader_pk' = caps_by_reader_pk
    /\ caps_order' = caps_order
    /\ hist' = [hist EXCEPT !.revoked[reader_dh_pk] =
                    @ \cup (claim_labels \cap caps_by_reader_pk[reader_dh_pk]),
                            !.grants[reader_dh_pk] = @ \ claim_labels]
    /\ UNCHANGED <<claim_content_by_label, cacheVars, chainVars, callerVars>>

\* State.revoke_access
revoke_access(reader_dh_pk, claim_labels) ==
    /\ Call
    /\ caps_by_reader_pk' =
           [caps_by_reader_pk EXCEPT ![reader_dh_pk] = @ \ claim_labels]
    /\ Reordered(reader_dh_pk)
    /\ hist' = [hist EXCEPT !.revoked[reader_dh_pk] =
                    @ \cup (claim_labels \cap caps_by_reader_pk[reader_dh_pk]),
                            !.grants[reader_dh_pk] = @ \ claim_labels]
    /\ UNCHANGED <<claim_content_by_label, cacheVars, chainVars, callerVars>>

\* State.get_capabilities: list(...) of the reader's set, a new list
get_capabilities(reader_dh_pk) ==
    /\ Call
    /\ returned' = [op     |-> "get_capabilities",
                    reader |-> reader_dh_pk,
                    list   |-> caps_order[reader_dh_pk]]
    /\ hist' = [hist EXCEPT !.asked = [grants |-> hist.grants[reader_dh_pk]]]
    /\ UNCHANGED <<stagingVars, cacheVars, chainVars, opened>>

\* clear that leaves the cached payload and tree in place
clear_KeepTree ==
    /\ Call
    /\ claim_content_by_label' = EmptyMap
    /\ caps_by_reader_pk' = [r \in Readers |-> {}]
    /\ caps_order' = [r \in Readers |-> <<>>]
    /\ enc_items_map' = EmptyMap
    /\ vrf_value_by_label' = EmptyMap
    /\ hist' = [hist EXCEPT !.last_set = EmptyMap,
                            !.revoked = [r \in Readers |-> {}],
                            !.grants = [r \in Readers |-> {}],
                            !.since_clear = FALSE]
    /\ UNCHANGED <<state_payload, state_tree, state_nonce, chainVars,
                   callerVars>>

\* State.clear
clear ==
    /\ Call
    /\ claim_content_by_label' = EmptyMap
    /\ caps_by_reader_pk' = [r \in Readers |-> {}]
    /\ caps_order' = [r \in Readers |-> <<>>]
    /\ enc_items_map' = EmptyMap
    /\ vrf_value_by_label' = EmptyMap
    /\ state_payload' = None
    /\ state_tree' = None
    /\ hist' = [hist EXCEPT !.last_set = EmptyMap,
                            !.revoked = [r \in Readers |-> {}],
                            !.grants = [r \in Readers |-> {}],
                            !.since_clear = FALSE]
    /\ UNCHANGED <<state_nonce, chainVars, callerVars>>

\* State.tree (property): the cached tree, or the ValueError
NotCommitted == [error |-> "ValueError", msg |-> "State not committed yet."]

StateTree == IF state_tree = None THEN NotCommitted ELSE state_tree

\* what a leaf of the tree holds for a ciphertext
LeafItem(enc_item) == [item_of |-> enc_item]

\* Tree.evidence(lookup_key): the nodes on the path from the root to the leaf
\* of the key (to another leaf when the tree does not hold the key)
Evidence(tree, lookup_key) ==
    IF DOMAIN tree.entries = {} THEN <<>>
    ELSE LET key  == IF lookup_key \in DOMAIN tree.entries THEN lookup_key
                     ELSE CHOOSE k \in DOMAIN tree.entries : TRUE
             leaf == [hid  |-> [leaf_of |-> <<key, tree.entries[key]>>],
                      key  |-> key,
                      item |-> LeafItem(tree.entries[key])]
         IN  <<[hid |-> tree.root_hash], leaf>>

\* the hids of the nodes of a path
Hids(raw_evidence) ==
    {raw_evidence[i].hid : i \in 1..Len(raw_evidence)}

\* evidence keys without the items of the two leaves
EvidenceKeys_NodesOnly(lp, reader_dh_pk, claim_label) ==
    IF claim_label \notin DOMAIN vrf_value_by_label THEN {}
    ELSE LET vrf_value          == vrf_value_by_label[claim_label]
             cap_lookup_key     ==
                 get_capability_lookup_key(lp, LocalParams(reader_dh_pk).dh.pk,
                                           state_nonce, claim_label)
             raw_cap_evidence   == Evidence(StateTree, cap_lookup_key)
             claim_lookup_key   == _compute_claim_key(vrf_value, "lookup")
             raw_claim_evidence == Evidence(StateTree, claim_lookup_key)
         IN  Hids(raw_cap_evidence) \cup Hids(raw_claim_evidence)

\* the set that State.compute_evidence_keys returns: empty on KeyError
EvidenceKeys(lp, reader_dh_pk, claim_label) ==
    IF claim_label \notin DOMAIN vrf_value_by_label THEN {}
    ELSE LET vrf_value          == vrf_value_by_label[claim_label]
             cap_lookup_key     ==
                 get_capability_lookup_key(lp, LocalParams(reader_dh_pk).dh.pk,
                                           state_nonce, claim_label)
             raw_cap_evidence   == Evidence(StateTree, cap_lookup_key)
             claim_lookup_key   == _compute_claim_key(vrf_value, "lookup")
             raw_claim_evidence == Evidence(StateTree, claim_lookup_key)
             object_keys        == Hids(raw_cap_evidence) \cup
                                   Hids(raw_claim_evidence)
             encoded_cap_hash   ==
                 raw_cap_evidence[Len(raw_cap_evidence)].item
             encoded_claim_hash ==
                 raw_claim_evidence[Len(raw_claim_evidence)].item
         IN  object_keys \cup {encoded_claim_hash} \cup {encoded_cap_hash}

\* State.compute_evidence_keys under the default LocalParams of `owner`
compute_evidence_keys(owner, reader_dh_pk, claim_label) ==
    /\ Call
    /\ returned' = [op     |-> "compute_evidence_keys",
                    reader |-> reader_dh_pk,
                    label  |-> claim_label,
                    keys   |-> EvidenceKeys(LocalParams(owner), reader_dh_pk,
                                            claim_label)]
    /\ hist' = [hist EXCEPT !.asked = [index |-> vrf_value_by_label,
                                       items |-> enc_items_map,
                                       nonce |-> state_nonce,
                                       owner |-> owner]]
    /\ UNCHANGED <<stagingVars, cacheVars, chainVars, opened>>

\* ------------------------------------------------------------------ Payload
\* Payload.build that encodes the root hash without testing it for None
PayloadBuild_NoNoneTest(lp, tree, nonce, timestamp) ==
    [mtr_hash  |-> bytes2ascii(tree.root_hash),
     metadata  |-> [params        |-> public_export(lp),
                    identity_info |-> identity_info],
     nonce     |-> bytes2ascii(nonce),
     timestamp |-> timestamp,
     version   |-> PROTOCOL_VERSION]

\* Payload.build
PayloadBuild(lp, tree, nonce, timestamp) ==
    [mtr_hash  |-> IF tree.root_hash # None
                   THEN bytes2ascii(tree.root_hash)
                   ELSE None,
     metadata  |-> [params        |-> public_export(lp),
                    identity_info |-> identity_info],
     nonce     |-> bytes2ascii(nonce),
     timestamp |-> timestamp,
     version   |-> PROTOCOL_VERSION]

\* Payload.export
PayloadExport(payload) ==
    [mtr_hash  |-> payload.mtr_hash,
     metadata  |-> [params        |-> payload.metadata.params,
                    identity_info |-> payload.metadata.identity_info],
     nonce     |-> payload.nonce,
     timestamp |-> payload.timestamp,
     version   |-> payload.version]

\* Payload.from_dict
PayloadFromDict(exported) ==
    [mtr_hash  |-> exported.mtr_hash,
     metadata  |-> [params        |-> exported.metadata.params,
                    identity_info |-> exported.metadata.identity_info],
     nonce     |-> exported.nonce,
     timestamp |-> exported.timestamp,
     version   |-> exported.version]

\* _build_tree whose filter keeps the Blob items only, that is none of them
_build_tree_BlobsOnly(enc_items) ==
    [root_hash |-> RootHash(EmptyMap), entries |-> EmptyMap]

\* _build_tree: a fresh tree over the store, updated with the entry map
_build_tree(enc_items) ==
    [root_hash |-> RootHash(enc_items), entries |-> enc_items]

\* _sign_block that hashes the block with an empty signature already in aux
_sign_block_AuxFirst(lp, block) ==
    [block EXCEPT !.aux =
        pet2ascii(sign(lp, BlockHash([block EXCEPT !.aux = pet2ascii(None)])))]

\* _sign_block: sign the hash of the block as it stands, store it in aux
_sign_block(lp, block) ==
    [block EXCEPT !.aux = pet2ascii(sign(lp, BlockHash(block)))]

\* ------------------------------------------------------------- State.commit
\* "Encode claims" loop of commit: entry map and label -> vrf_value index
RECURSIVE EncodeClaims(_, _, _, _)
EncodeClaims(lp, nonce, todo, acc) ==
    IF todo = {} THEN acc
    ELSE LET claim_label == CHOOSE l \in todo : TRUE
             enc == encode_claim(lp, nonce, claim_label,
                                 claim_content_by_label[claim_label])
         IN  EncodeClaims(lp, nonce, todo \ {claim_label},
                 [items |-> Put(acc.items, enc.lookup_key, enc.enc_claim),
                  vrfs  |-> Put(acc.vrfs, claim_label, enc.vrf_value)])

\* inner loop that evaluates the VRF of a label itself instead of reading the
\* label -> vrf_value index, so that it never meets a missing label
RECURSIVE EncodeReaderCaps_OwnVrf(_, _, _, _, _, _, _)
EncodeReaderCaps_OwnVrf(lp, nonce, reader, order, i, vrfs, items) ==
    IF i > Len(order) THEN items
    ELSE LET enc == encode_capability(lp, LocalParams(reader).dh.pk, nonce,
                        order[i], vrf_eval(lp.vrf.sk, nonce, order[i]))
         IN  EncodeReaderCaps_OwnVrf(lp, nonce, reader, order, i + 1, vrfs,
                                     Put(items, enc.lookup_key, enc.enc_cap))

\* inner loop that warns and goes on to the next label of the reader
RECURSIVE EncodeReaderCaps_Continue(_, _, _, _, _, _, _)
EncodeReaderCaps_Continue(lp, nonce, reader, order, i, vrfs, items) ==
    IF i > Len(order) THEN items
    ELSE IF order[i] \notin DOMAIN vrfs
         THEN EncodeReaderCaps_Continue(lp, nonce, reader, order, i + 1, vrfs,
                                        items)
    ELSE LET enc == encode_capability(lp, LocalParams(reader).dh.pk, nonce,
                                      order[i], vrfs[order[i]])
         IN  EncodeReaderCaps_Continue(lp, nonce, reader, order, i + 1, vrfs,
                                       Put(items, enc.lookup_key, enc.enc_cap))

\* inner "Encode capabilities" loop for one reader, labels met in the given
\* order; a label without a vrf value warns and breaks out of the loop
RECURSIVE EncodeReaderCaps(_, _, _, _, _, _, _)
EncodeReaderCaps(lp, nonce, reader, order, i, vrfs, items) ==
    IF i > Len(order) THEN items
    ELSE IF order[i] \notin DOMAIN vrfs THEN items
    ELSE LET enc == encode_capability(lp, LocalParams(reader).dh.pk, nonce,
                                      order[i], vrfs[order[i]])
         IN  EncodeReaderCaps(lp, nonce, reader, order, i + 1, vrfs,
                              Put(items, enc.lookup_key, enc.enc_cap))

\* the labels of every reader's grant set, one order after the other
RECURSIVE AllOrders(_, _)
AllOrders(orders, todo) ==
    IF todo = {} THEN <<>>
    ELSE LET reader == CHOOSE r \in todo : TRUE
         IN  orders[reader] \o AllOrders(orders, todo \ {reader})

\* outer loop that runs the inner loop of each reader over all the grant sets
RECURSIVE EncodeCaps_AllGrants(_, _, _, _, _, _)
EncodeCaps_AllGrants(lp, nonce, todo, orders, vrfs, items) ==
    IF todo = {} THEN items
    ELSE LET reader == CHOOSE r \in todo : TRUE
         IN  EncodeCaps_AllGrants(lp, nonce, todo \ {reader}, orders, vrfs,
                 EncodeReaderCaps(lp, nonce, reader,
                                  AllOrders(orders, Readers), 1, vrfs, items))

\* outer "Encode capabilities" loop over the readers
RECURSIVE EncodeCaps(_, _, _, _, _, _)
EncodeCaps(lp, nonce, todo, orders, vrfs, items) ==
    IF todo = {} THEN items
    ELSE LET reader == CHOOSE r \in todo : TRUE
         IN  EncodeCaps(lp, nonce, todo \ {reader}, orders, vrfs,
                 EncodeReaderCaps(lp, nonce, reader, orders[reader], 1,
                                  vrfs, items))

\* a tree store that holds the nodes of the latest tree only
TreeStore_LatestOnly(enc_items) ==
    IF DOMAIN enc_items = {} THEN {} ELSE {enc_items}

\* the store after tree.update in _build_tree: the nodes of the new tree are
\* added to those it holds (tree_store is target_chain.store)
TreeStore(enc_items) ==
    IF DOMAIN enc_items = {} THEN store ELSE store \cup {enc_items}

\* a block that carries neither its position nor a link to its predecessor
NewBlock_NoLink(lp, items) ==
    _sign_block(lp, [index   |-> 0,
                     fingers |-> <<>>,
                     items   |-> items,
                     aux     |-> None])

\* hippiehug Chain.multi_add with pre_commit_fn = _sign_block
NewBlock(lp, items) ==
    _sign_block(lp, [index   |-> Len(blocks),
                     fingers |-> IF head = None THEN <<>> ELSE <<head>>,
                     items   |-> items,
                     aux     |-> None])

\* the warnings of the "Encode capabilities" loop: for each reader, the first
\* label its grant set yields that has no vrf value
Warnings(orders, vrfs) ==
    UNION {{[reader |-> r, label |-> orders[r][i]] :
               i \in {k \in 1..Len(orders[r]) :
                         /\ orders[r][k] \notin DOMAIN vrfs
                         /\ \A m \in 1..(k - 1) : orders[r][m] \in DOMAIN vrfs}} :
           r \in Readers}

\* the two encoding loops of commit: the entry map handed to _build_tree and
\* the label -> vrf_value index
CommitItems(lp, nonce, orders) ==
    LET claims == EncodeClaims(lp, nonce, DOMAIN claim_content_by_label,
                               [items |-> EmptyMap, vrfs |-> EmptyMap])
    IN  [items |-> EncodeCaps(lp, nonce, Readers, orders, claims.vrfs,
                              claims.items),
         vrfs  |-> claims.vrfs]

\* the nonce commit works with: `nonce or os.urandom(...)`
CommitNonce(nonce_arg, urandom) ==
    IF nonce_arg \in {NoneArg, ""} THEN urandom ELSE nonce_arg

\* what State.commit assigns: the nonce, the store, the chain and the cache
Publish(owner, nonce_arg, urandom, timestamp) ==
    /\ Call
    /\ LET lp      == LocalParams(owner)
           nonce   == CommitNonce(nonce_arg, urandom)
           enc     == CommitItems(lp, nonce, caps_order)
           items   == enc.items
           tree    == _build_tree(items)
           payload == PayloadBuild(lp, tree, nonce, timestamp)
           block   == NewBlock(lp, <<PayloadExport(payload)>>)
       IN  /\ state_nonce' = nonce
           /\ store' = TreeStore(items)
           /\ blocks' = Append(blocks, block)
           /\ head' = BlockHash(block)
           /\ state_payload' = payload
           /\ state_tree' = tree
           /\ enc_items_map' = items
           /\ vrf_value_by_label' = enc.vrfs
           /\ hist' = [hist EXCEPT
                  !.since_clear = TRUE,
                  !.commits     = @ + 1,
                  !.prev_claims = IF hist.commit = NoCommit THEN EmptyMap
                                  ELSE hist.commit.claims,
                  !.commit = [owner    |-> owner,
                              nonce    |-> nonce,
                              claims   |-> hist.last_set,
                              caps     |-> caps_by_reader_pk,
                              orders   |-> caps_order,
                              revoked  |-> hist.revoked,
                              items    |-> items,
                              warnings |-> Warnings(caps_order, enc.vrfs),
                              returned |-> BlockHash(block)]]

\* a commit that hands the pending claims and grants over and starts afresh
commit_Drain(owner, nonce_arg, urandom, timestamp) ==
    /\ Publish(owner, nonce_arg, urandom, timestamp)
    /\ claim_content_by_label' = EmptyMap
    /\ caps_by_reader_pk' = [r \in Readers |-> {}]
    /\ caps_order' = [r \in Readers |-> <<>>]
    /\ UNCHANGED callerVars

\* State.commit(target_chain, tree_store=None, nonce=nonce_arg) called under
\* the default LocalParams of `owner`; urandom is what os.urandom returns,
\* timestamp what time() returns; each grant set is met in its iteration order
commit(owner, nonce_arg, urandom, timestamp) ==
    /\ Publish(owner, nonce_arg, urandom, timestamp)
    /\ UNCHANGED <<stagingVars, callerVars>>

\* State.commit left by an exception or an interrupt before the chain append:
\* at "encode" inside the two encoding loops, at "build" between _build_tree
\* and multi_add. The assignment to self._nonce and, at "build", the nodes
\* that tree.update wrote to the store have happened by then.
commit_interrupted(owner, nonce_arg, urandom, at) ==
    /\ Call
    /\ LET lp    == LocalParams(owner)
           nonce == CommitNonce(nonce_arg, urandom)
           items == CommitItems(lp, nonce, caps_order).items
       IN  /\ state_nonce' = nonce
           /\ store' = IF at = "build" THEN TreeStore(items) ELSE store
    /\ returned' = [op |-> "commit", raised |-> at, call |-> calls']
    /\ UNCHANGED <<stagingVars, enc_items_map, vrf_value_by_label,
                   state_payload, state_tree, blocks, head, hist, opened>>

\* ------------------------------------------------------------------- View
TreeMismatch == [error |-> "ValueError",
                 msg   |-> "Supplied tree doesn't match MTR in the chain."]

\* Tree(object_store=chain.store, root_hash=root_hash)
TreeOpen(root_hash) ==
    [root_hash |-> root_hash,
     entries   |-> IF root_hash # None /\ root_hash.root_of \in store
                   THEN root_hash.root_of
                   ELSE EmptyMap]

\* View.payload (cached_property)
ViewPayload(latest_block) == PayloadFromDict(latest_block.items[1])

\* View.params (cached_property)
ViewParams(latest_block) ==
    from_dict(ViewPayload(latest_block).metadata.params)

\* View.__init__(chain, source_tree) under the default LocalParams of `viewer`
\* on a chain whose head is latest_block
ViewAt(latest_block, viewer, source_tree) ==
    LET payload      == ViewPayload(latest_block)
        has_tree     == payload.mtr_hash # None
        tree         == IF source_tree # None THEN source_tree
                        ELSE TreeOpen(ascii2bytes(payload.mtr_hash))
    IN  IF has_tree /\ ascii2bytes(payload.mtr_hash) # tree.root_hash
        THEN TreeMismatch
        ELSE [viewer_params |-> LocalParams(viewer),
              latest_block  |-> latest_block,
              payload       |-> payload,
              params        |-> ViewParams(latest_block),
              nonce         |-> ascii2bytes(payload.nonce),
              has_tree      |-> has_tree,
              tree          |-> IF has_tree THEN tree ELSE None]

\* View.__init__ on the target chain of the commits
View(viewer, source_tree) == ViewAt(blocks[Len(blocks)], viewer, source_tree)

\* View.head (property): the head of the chain the View was given, read at
\* the time of the access
ViewHead(view) == head

\* view = View(chain) under the default LocalParams of `viewer`, kept by the
\* caller; chain.store[chain.head] needs a block
OpenView(viewer) ==
    /\ Call
    /\ head # None
    /\ opened = None
    /\ opened' = View(viewer, None)
    /\ UNCHANGED <<stagingVars, cacheVars, chainVars, hist, returned>>

\* outcomes of a lookup
Ok(content)    == [kind |-> "ok", val |-> content]
AccessDenied   == [kind |-> "KeyError",
                   val  |-> "Label does not exist or you don't have permission to read."]
MissingClaim   == [kind |-> "KeyError",
                   val  |-> "Claim not found, but permission to read the label exists."]
NoClaimMap     == [kind |-> "ValueError",
                   val  |-> "The chain does not have a claim map."]
DecodeFailed   == [kind |-> "DecodeError", val |-> DecodeError]

\* View._lookup_claim
_lookup_claim(view, claim_label, vrf_value, claim_lookup_key) ==
    IF ~view.has_tree THEN NoClaimMap
    ELSE IF claim_lookup_key \notin DOMAIN view.tree.entries THEN MissingClaim
    ELSE LET content == decode_claim(view.params.vrf.pk, view.nonce,
                            claim_label, vrf_value,
                            view.tree.entries[claim_lookup_key])
         IN  IF content = DecodeError THEN DecodeFailed ELSE Ok(content)

\* View._lookup_capability: [ok, vrf_value, claim_lookup_key] or the error
_lookup_capability(view, claim_label) ==
    LET cap_lookup_key == get_capability_lookup_key(view.viewer_params,
                              view.params.dh.pk, view.nonce, claim_label)
    IN  IF ~view.has_tree THEN [ok |-> FALSE, error |-> NoClaimMap]
        ELSE IF cap_lookup_key \notin DOMAIN view.tree.entries
        THEN [ok |-> FALSE, error |-> AccessDenied]
        ELSE LET cap == decode_capability(view.viewer_params,
                            view.params.dh.pk, view.nonce, claim_label,
                            view.tree.entries[cap_lookup_key])
             IN  IF cap.ok THEN cap
                 ELSE [ok |-> FALSE, error |-> DecodeFailed]

\* View.__getitem__
ViewGetItem(view, claim_label) ==
    IF view.viewer_params.vrf.pk = view.params.vrf.pk
    THEN LET enc == encode_claim(view.viewer_params, view.nonce,
                                 claim_label, "")
         IN  _lookup_claim(view, claim_label, enc.vrf_value, enc.lookup_key)
    ELSE LET cap == _lookup_capability(view, claim_label)
         IN  IF cap.ok
             THEN _lookup_claim(view, claim_label, cap.vrf_value,
                                cap.claim_lookup_key)
             ELSE cap.error

\* validate that checks who signed, not what was signed
ViewValidate_SignerOnly(view) ==
    IF ascii2pet(view.latest_block.aux).signer # view.params.sig.pk
    THEN [error |-> "ValueError", msg |-> "Invalid signature."]
    ELSE [error |-> "none", msg |-> "ok"]

\* View.validate: "ok" or the ValueError
InvalidSignature == [error |-> "ValueError", msg |-> "Invalid signature."]

ViewValidate(view) ==
    LET owner_sig_pk == view.params.sig.pk
        sig          == ascii2pet(view.latest_block.aux)
        cleared      == [view.latest_block EXCEPT !.aux = None]
    IN  IF ~verify_signature(owner_sig_pk, sig, BlockHash(cleared))
        THEN InvalidSignature
        ELSE [error |-> "none", msg |-> "ok"]

\* ------------------------------------------------------------ specification
Next ==
    \/ \E l \in Labels, c \in Contents : SetItem(l, c)
    \/ \E r \in Readers, ls \in SUBSET Labels : grant_access(r, ls)
    \/ \E r \in Readers, ls \in SUBSET Labels : revoke_access(r, ls)
    \/ clear
    \/ \E owner \in Owners, nonce_arg \in Nonces \cup {NoneArg, ""},
          urandom \in Nonces, timestamp \in Timestamps :
            commit(owner, nonce_arg, urandom, timestamp)

Spec == Init /\ [][Next]_vars

\* ---------------------------------------------------------------- tampering
\* The block held in the store under chain.head, and the block as it was
\* appended (the head hash is taken over the whole appended block).
StoredHead   == blocks[Len(blocks)]
AppendedHead == head.hash_of

\* well-formed payloads that differ from the given one in one field
OtherBodies(exported) ==
    ( {[exported EXCEPT !.mtr_hash = m] :
          m \in {None} \cup {bytes2ascii(RootHash(e)) : e \in store}}
      \cup {[exported EXCEPT !.nonce = bytes2ascii(n)] : n \in Nonces}
      \cup {[exported EXCEPT !.metadata.params =
                public_export(LocalParams(p))] : p \in Principals}
      \cup {[exported EXCEPT !.version = PROTOCOL_VERSION + 1]} )
    \ {exported}

\* well-formed signatures: any principal's, over the hash of the stored block
\* with aux cleared or over the hash the appended block was signed under
OtherSignatures(block) ==
    {pet2ascii(sign(LocalParams(p), m)) :
        p \in Principals,
        m \in {BlockHash([block EXCEPT !.aux = None]),
               BlockHash([AppendedHead EXCEPT !.aux = None])}}
    \ {block.aux}

\* someone with write access to the store replaces the body of the head block
TamperBody ==
    /\ Call
    /\ head # None
    /\ \E body \in OtherBodies(StoredHead.items[1]) :
          blocks' = [blocks EXCEPT ![Len(blocks)].items = <<body>>]
    /\ UNCHANGED <<stagingVars, cacheVars, head, store, hist, callerVars>>

\* ... or the signature kept in its aux slot
TamperAux ==
    /\ Call
    /\ head # None
    /\ \E aux \in OtherSignatures(StoredHead) :
          blocks' = [blocks EXCEPT ![Len(blocks)].aux = aux]
    /\ UNCHANGED <<stagingVars, cacheVars, head, store, hist, callerVars>>

\* the owner goes on calling the State while the head block is as appended
Untampered == IF head = None THEN TRUE ELSE StoredHead = AppendedHead

OwnerCall == Untampered /\ Next

NextTamper == OwnerCall \/ TamperBody \/ TamperAux

SpecTamper == Init /\ [][NextTamper]_vars

\* ------------------------------------------------- the owner asks the State
\* The calls of Next, and get_capabilities between them.
NextCaps ==
    \/ \E l \in Labels, c \in Contents : SetItem(l, c)
    \/ \E r \in Readers, ls \in SUBSET Labels : grant_access(r, ls)
    \/ \E r \in Readers, ls \in SUBSET Labels : revoke_access(r, ls)
    \/ clear
    \/ \E owner \in Owners, nonce_arg \in Nonces \cup {NoneArg, ""},
          urandom \in Nonces, timestamp \in Timestamps :
            commit(owner, nonce_arg, urandom, timestamp)
    \/ \E r \in Readers : get_capabilities(r)

SpecCaps == Init /\ [][NextCaps]_vars

\* The calls of Next, and compute_evidence_keys between them.
NextEvidence ==
    \/ \E l \in Labels, c \in Contents : SetItem(l, c)
    \/ \E r \in Readers, ls \in SUBSET Labels : grant_access(r, ls)
    \/ \E r \in Readers, ls \in SUBSET Labels : revoke_access(r, ls)
    \/ clear
    \/ \E owner \in Owners, nonce_arg \in Nonces \cup {NoneArg, ""},
          urandom \in Nonces, timestamp \in Timestamps :
            commit(owner, nonce_arg, urandom, timestamp)
    \/ \E owner \in Owners, r \in Readers, l \in Labels :
          compute_evidence_keys(owner, r, l)

SpecEvidence == Init /\ [][NextEvidence]_vars

\* ------------------------------------------------------- a View that is kept
\* The calls of Next, and the construction of a View that stays in use.
NextView ==
    \/ \E l \in Labels, c \in Contents : SetItem(l, c)
    \/ \E r \in Readers, ls \in SUBSET Labels : grant_access(r, ls)
    \/ \E r \in Readers, ls \in SUBSET Labels : revoke_access(r, ls)
    \/ clear
    \/ \E owner \in Owners, nonce_arg \in Nonces \cup {NoneArg, ""},
          urandom \in Nonces, timestamp \in Timestamps :
            commit(owner, nonce_arg, urandom, timestamp)
    \/ \E viewer \in Principals : OpenView(viewer)

SpecView == Init /\ [][NextView]_vars

\* ------------------------------------------------- commits that do not end
\* The calls of Next, and commits that are interrupted on their way.
NextFail ==
    \/ \E l \in Labels, c \in Contents : SetItem(l, c)
    \/ \E r \in Readers, ls \in SUBSET Labels : grant_access(r, ls)
    \/ \E r \in Readers, ls \in SUBSET Labels : revoke_access(r, ls)
    \/ clear
    \/ \E owner \in Owners, nonce_arg \in Nonces \cup {NoneArg, ""},
          urandom \in Nonces, timestamp \in Timestamps :
            commit(owner, nonce_arg, urandom, timestamp)
    \/ \E owner \in Owners, nonce_arg \in Nonces \cup {NoneArg, ""},
          urandom \in Nonces, at \in {"encode", "build"} :
            commit_interrupted(owner, nonce_arg, urandom, at)

SpecFail == Init /\ [][NextFail]_vars

\* ------------------------------------------------------------------ claims
HeadPayload == ViewPayload(StoredHead)

\* entries of the tree the head block commits to
HeadEntries ==
    IF HeadPayload.mtr_hash = None THEN EmptyMap
    ELSE TreeOpen(ascii2bytes(HeadPayload.mtr_hash)).entries

\* the viewer's vrf_pk is the one the head block declares
IsOwnerOfHead(v) == LocalParams(v).vrf.pk = ViewParams(StoredHead).vrf.pk

\* the labels granted to a viewer when the latest commit was called
GrantSet(v) == IF v \in Readers THEN hist.commit.caps[v] ELSE {}

\* trees a caller can hand to View(chain, source_tree)
SourceTrees == {None} \cup (IF hist.since_clear THEN {state_tree} ELSE {})

\* key under which the latest commit files the capability of reader r for l
CommittedCapKey(r, l) ==
    get_capability_lookup_key(LocalParams(hist.commit.owner),
                              LocalParams(r).dh.pk, hist.commit.nonce, l)

\* C1: after any sequence of set calls (a later set of a label replacing the
\* earlier one) and a commit, a View of the head built by the owner (viewer
\* vrf_pk equal to the declared one) reads, for every staged label, exactly
\* the content last set for it.
C1_SelfRoundTrip ==
    head # None =>
        \A v \in Principals, st \in SourceTrees :
            IsOwnerOfHead(v) =>
                \A l \in DOMAIN hist.commit.claims :
                    ViewGetItem(View(v, st), l) = Ok(hist.commit.claims[l])

C1_Witness ==
    /\ head # None
    /\ DOMAIN hist.commit.claims = Labels
    /\ hist.commit.claims["email"] = "b@y"
    /\ hist.commit.claims["phone"] = "a@x"
    /\ ViewGetItem(View("O", None), "email") = Ok("b@y")
    /\ ViewGetItem(View("O", None), "phone") = Ok("a@x")

\* C2: whenever label L has a staged content C and reader R's grant set
\* contains L when commit is called, whatever else R or other readers were
\* granted, a View of the committed head built with R's parameters returns C
\* for L.
C2_ReaderRoundTrip ==
    head # None =>
        \A r \in Readers, l \in Labels :
            (l \in DOMAIN hist.commit.claims /\ l \in hist.commit.caps[r]) =>
                ViewGetItem(View(r, None), l) = Ok(hist.commit.claims[l])

C4_RevokeThenCommit ==
    head # None =>
        \A r \in Readers :
            \A l \in hist.commit.revoked[r] :
                /\ CommittedCapKey(r, l) \notin DOMAIN HeadEntries
                /\ l \in DOMAIN hist.commit.claims =>
                       /\ encode_claim(LocalParams(hist.commit.owner),
                                       hist.commit.nonce, l, "").lookup_key
                              \in DOMAIN HeadEntries
                       /\ ViewGetItem(View(r, None), l) = AccessDenied

C4_Witness ==
    /\ head # None
    /\ "email" \in hist.commit.revoked["R1"]
    /\ "email" \in DOMAIN hist.commit.claims
    /\ ViewGetItem(View("R1", None), "email") = AccessDenied
    /\ ViewGetItem(View("O", None), "email") = Ok(hist.commit.claims["email"])

BlockPayload(i) == PayloadFromDict(blocks[i].items[1])
BlockNonce(i)   == ascii2bytes(BlockPayload(i).nonce)
BlockEntries(i) ==
    IF BlockPayload(i).mtr_hash = None THEN EmptyMap
    ELSE TreeOpen(ascii2bytes(BlockPayload(i).mtr_hash)).entries
BlockOwner(i)   ==
    CHOOSE p \in Principals :
        public_export(LocalParams(p)) = BlockPayload(i).metadata.params

IsCapKey(k) == "cap_mode" \in DOMAIN k

\* C6: in every committed block each capability entry has the claim entry of
\* the same label in the same tree; a grant for a label without a staged claim
\* leaves no capability entry while the commit completes, and no lookup
\* through a capability (a viewer other than the owner) ends in MissingClaim.
C6_CapabilityImpliesClaim ==
    /\ \A i \in 1..Len(blocks) :
           \A k \in DOMAIN BlockEntries(i) :
               IsCapKey(k) =>
                   /\ encode_claim(LocalParams(BlockOwner(i)), BlockNonce(i),
                                   k.label, "").lookup_key
                          \in DOMAIN BlockEntries(i)
                   /\ _compute_claim_key(BlockEntries(i)[k].vrf_value,
                                         "lookup") \in DOMAIN BlockEntries(i)
    /\ head # None =>
           /\ \A r \in Readers :
                  \A l \in hist.commit.caps[r] \ DOMAIN hist.commit.claims :
                      CommittedCapKey(r, l) \notin DOMAIN HeadEntries
           /\ \A v \in Principals, l \in Labels :
                  ~IsOwnerOfHead(v) =>
                      ViewGetItem(View(v, None), l) # MissingClaim

C6_Witness ==
    /\ head # None
    /\ DOMAIN hist.commit.claims = {"email"}
    /\ hist.commit.caps["R1"] = {"phone"}
    /\ hist.commit.caps["R2"] = {"email"}
    /\ CommittedCapKey("R2", "email") \in DOMAIN HeadEntries
    /\ CommittedCapKey("R1", "phone") \notin DOMAIN HeadEntries
    /\ ViewGetItem(View("R1", None), "phone") = AccessDenied

BodyChanged == StoredHead.items # AppendedHead.items
AuxChanged  == StoredHead.aux # AppendedHead.aux

C9_MtrHash ==
    head # None =>
        /\ HeadPayload.mtr_hash = None <=> DOMAIN hist.commit.items = {}
        /\ HeadPayload.mtr_hash # None =>
               ascii2bytes(HeadPayload.mtr_hash) = RootHash(hist.commit.items)
        /\ hist.since_clear =>
               /\ state_payload.mtr_hash = HeadPayload.mtr_hash
               /\ state_tree.root_hash = RootHash(hist.commit.items)
               /\ state_tree.entries = hist.commit.items

C9_Witness ==
    /\ Len(blocks) = 2
    /\ BlockPayload(1).mtr_hash = None
    /\ BlockPayload(2).mtr_hash # None
    /\ ascii2bytes(HeadPayload.mtr_hash) = RootHash(hist.commit.items)
    /\ Cardinality(DOMAIN hist.commit.items) = 2

\* C10: reading State.tree fails with NotCommitted while no commit has
\* returned since creation or since the last clear(), and gives the tree of
\* the most recent commit otherwise, an empty commit included.
C10_NotCommitted ==
    IF hist.since_clear
    THEN /\ StateTree.root_hash = RootHash(hist.commit.items)
         /\ StateTree.entries = hist.commit.items
    ELSE StateTree = NotCommitted

C10_Witness ==
    /\ head # None
    /\ ~hist.since_clear
    /\ StateTree = NotCommitted

\* the elements of a list
Range(list) == {list[i] : i \in 1..Len(list)}

IsCapabilities(result) ==
    IF result = NoResult THEN FALSE ELSE result.op = "get_capabilities"

\* C11: the grant set of every reader is what the grants (union) and revokes
\* (difference) on that reader, applied in call order from the empty set at
\* creation or the last clear, leave, whatever was done to other readers and
\* whether or not the reader was ever granted anything; and what
\* get_capabilities returned stays the reader's grant set as it was at the
\* time of that call, each label once.
C11_GrantSetAlgebra ==
    /\ \A r \in Readers :
          /\ caps_by_reader_pk[r] = hist.grants[r]
          /\ Range(caps_order[r]) = caps_by_reader_pk[r]
          /\ Len(caps_order[r]) = Cardinality(caps_by_reader_pk[r])
    /\ IsCapabilities(returned) =>
          /\ Range(returned.list) = hist.asked.grants
          /\ Len(returned.list) = Cardinality(hist.asked.grants)

\* a reader was granted two labels and lost one again while the other reader's
\* revoke met an empty set, and the list returned earlier differs from the
\* reader's set of now
C11_Witness ==
    /\ IsCapabilities(returned)
    /\ Range(returned.list) # caps_by_reader_pk[returned.reader]
    /\ Range(returned.list) # {}
    /\ caps_by_reader_pk[returned.reader] # {}
    /\ \E r \in Readers : r # returned.reader /\ hist.grants[r] = {}

\* trees a caller can hold: the trees that the commits so far have built
SuppliedTrees == {_build_tree(enc_items) : enc_items \in store}

\* C12: View(chain, source_tree) raises the tree mismatch error whenever the
\* root hash of the supplied tree differs from mtr_hash of the head payload,
\* a null mtr_hash included, and a View that was constructed holds a tree
\* whose root is mtr_hash.
C12_TreeMismatch ==
    head # None =>
        \A v \in Principals, source_tree \in SuppliedTrees :
            LET mtr_hash == IF HeadPayload.mtr_hash = None THEN None
                            ELSE ascii2bytes(HeadPayload.mtr_hash)
                made     == View(v, source_tree)
            IN  /\ source_tree.root_hash # mtr_hash => made = TreeMismatch
                /\ made # TreeMismatch /\ made.has_tree =>
                       made.tree.root_hash = mtr_hash

\* C13: a commit that is interrupted before the chain append leaves the
\* pending claims and grants, the cached tree, payload, nonce and label to
\* vrf index, the chain and the tree store exactly as they were.
C13_CommitAtomicity ==
    [][(returned' # returned /\ returned'.op = "commit") =>
           UNCHANGED <<stagingVars, cacheVars, chainVars>>]_vars

\* the entries under the root hash that the i-th block commits to
CommittedEntries(i) ==
    IF BlockPayload(i).mtr_hash = None THEN EmptyMap
    ELSE ascii2bytes(BlockPayload(i).mtr_hash).root_of

\* C14: when the block before the head holds a capability for (R, L) and the
\* owner revoked (R, L) before the commit of the head block, R still reads L's
\* content from a View of the earlier block and is denied L by a View of the
\* head, and the earlier block is stored as the head block links to it, with
\* the entries of its tree in the store.
C14_PastBlocksImmutable ==
    Len(blocks) >= 2 =>
        LET b1 == Len(blocks) - 1
        IN  \A r \in Readers, l \in Labels :
                (/\ get_capability_lookup_key(LocalParams(BlockOwner(b1)),
                        LocalParams(r).dh.pk, BlockNonce(b1), l)
                        \in DOMAIN CommittedEntries(b1)
                 /\ l \in hist.commit.revoked[r])
                => /\ l \in DOMAIN hist.prev_claims
                   /\ ViewGetItem(ViewAt(blocks[b1], r, None), l) =
                          Ok(hist.prev_claims[l])
                   /\ ViewGetItem(View(r, None), l) = AccessDenied
                   /\ StoredHead.fingers = <<BlockHash(blocks[b1])>>
                   /\ CommittedEntries(b1) \in store

\* R1 held a capability for email in the first block, lost it before the
\* second, and the second block still holds the claim
C14_Witness ==
    /\ Len(blocks) = 2
    /\ "email" \in hist.commit.revoked["R1"]
    /\ "email" \in DOMAIN hist.commit.claims
    /\ get_capability_lookup_key(LocalParams("O"), LocalParams("R1").dh.pk,
                                 BlockNonce(1), "email")
           \in DOMAIN CommittedEntries(1)

\* C15: the chain holds one block per commit that returned, empty commits
\* included; the head is the hash of the last block and is what the latest
\* commit returned; the last block links to the one before it; and the head
\* is the hash of no earlier block.
C15_HeadAdvances ==
    /\ Len(blocks) = hist.commits
    /\ head = None <=> Len(blocks) = 0
    /\ head # None =>
          /\ head = BlockHash(StoredHead)
          /\ hist.commit.returned = head
          /\ StoredHead.index = Len(blocks) - 1
          /\ StoredHead.fingers =
                 IF Len(blocks) = 1 THEN <<>>
                 ELSE <<BlockHash(blocks[Len(blocks) - 1])>>
          /\ \A i \in 1..(Len(blocks) - 1) : BlockHash(blocks[i]) # head

\* three commits, the last two of them with equal payloads, one of the three
\* empty
C15_Witness ==
    /\ hist.commits >= 3
    /\ blocks[Len(blocks)].items = blocks[Len(blocks) - 1].items
    /\ \E i \in 1..Len(blocks) : BlockPayload(i).mtr_hash = None

IsEvidence(result) ==
    IF result = NoResult THEN FALSE ELSE result.op = "compute_evidence_keys"

\* C16: compute_evidence_keys returns the empty set for a label that is not in
\* the label to vrf index the State held at the call (nothing committed yet,
\* staged after the commit, never staged, or cleared); for a label in the
\* index and a reader whose capability is among the committed entries it
\* returns the root of the committed tree, the hashes of the capability leaf
\* and of the claim leaf, the items of these two leaves, and nothing else.
C16_EvidenceKeys ==
    IsEvidence(returned) =>
        LET index     == hist.asked.index
            items     == hist.asked.items
            cap_key   == get_capability_lookup_key(
                             LocalParams(hist.asked.owner),
                             LocalParams(returned.reader).dh.pk,
                             hist.asked.nonce, returned.label)
            claim_key == encode_claim(LocalParams(hist.asked.owner),
                             hist.asked.nonce, returned.label, "").lookup_key
        IN  /\ returned.label \notin DOMAIN index => returned.keys = {}
            /\ (returned.label \in DOMAIN index /\ cap_key \in DOMAIN items)
               => /\ claim_key \in DOMAIN items
                  /\ returned.keys =
                        {RootHash(items),
                         [leaf_of |-> <<cap_key, items[cap_key]>>],
                         [leaf_of |-> <<claim_key, items[claim_key]>>],
                         LeafItem(items[cap_key]),
                         LeafItem(items[claim_key])}

\* evidence was returned for a committed capability of R1, and the State was
\* cleared afterwards
C16_Witness ==
    /\ IsEvidence(returned)
    /\ returned.reader = "R1"
    /\ Cardinality(returned.keys) = 5
    /\ vrf_value_by_label = EmptyMap

\* positions in the reader's iteration order, at the latest commit, of the
\* labels that had no staged claim
Unstaged(r) ==
    {i \in 1..Len(hist.commit.orders[r]) :
        hist.commit.orders[r][i] \notin DOMAIN hist.commit.claims}

\* what the latest commit left, reader by reader: capability entries for the
\* labels met before the first label without a staged claim, none from that
\* label on, one warning that names that label, and no warning for a reader
\* whose grants all have claims
C17_AfterCommit ==
    hist.commit # NoCommit =>
    /\ hist.commit.returned = head
    /\ \A r \in Readers :
          LET order == hist.commit.orders[r]
          IN  /\ Range(order) = hist.commit.caps[r]
              /\ \A i \in 1..Len(order) :
                    CommittedCapKey(r, order[i]) \in DOMAIN hist.commit.items
                        <=> \A k \in Unstaged(r) : i < k
              /\ \A l \in Labels :
                    [reader |-> r, label |-> l] \in hist.commit.warnings
                        <=> \E k \in Unstaged(r) :
                               /\ order[k] = l
                               /\ \A m \in Unstaged(r) : k <= m

\* C17: a commit returns whatever is granted; for each reader it writes the
\* capabilities of the labels met before the first label without a staged
\* claim, warns about that label and skips the reader's remaining grants,
\* whatever it met for the other readers; and it leaves every pending grant
\* set as it was.
C17_GrantWithoutClaim ==
    [][hist'.commits # hist.commits =>
          /\ caps_by_reader_pk' = caps_by_reader_pk
          /\ caps_order' = caps_order
          /\ C17_AfterCommit']_vars

\* R1's grants were met phone first, which had no claim, so that its grant of
\* email was skipped, while R2's grant of email was written
C17_Witness ==
    /\ head # None
    /\ hist.commit.orders["R1"] = <<"phone", "email">>
    /\ hist.commit.warnings = {[reader |-> "R1", label |-> "phone"]}
    /\ CommittedCapKey("R1", "email") \notin DOMAIN HeadEntries
    /\ CommittedCapKey("R2", "email") \in DOMAIN HeadEntries
    /\ caps_by_reader_pk["R1"] = {"email", "phone"}

\* the orders in which the pending grant sets can iterate
IterationOrders ==
    {orders \in [Readers -> UNION {Perms(S) : S \in SUBSET Labels}] :
        \A r \in Readers : orders[r] \in Perms(caps_by_reader_pk[r])}

\* C18: a commit of the pending claims and grants under a nonce given by the
\* caller hands the same entries to the tree, and puts the same mtr_hash in
\* the payload, whatever the order in which the grant sets iterate.
C18_CommitDeterminism ==
    \A owner \in Owners, nonce \in Nonces, timestamp \in Timestamps :
        \A orders1, orders2 \in IterationOrders :
            LET lp     == LocalParams(owner)
                items1 == CommitItems(lp, nonce, orders1).items
                items2 == CommitItems(lp, nonce, orders2).items
            IN  /\ items1 = items2
                /\ PayloadBuild(lp, _build_tree(items1), nonce,
                                timestamp).mtr_hash =
                   PayloadBuild(lp, _build_tree(items2), nonce,
                                timestamp).mtr_hash

\* C19: the block, payload, params, nonce and tree that a View works with are
\* those of the block whose hash View.head gives, also after further commits
\* to the chain.
C19_ViewMatchesHead ==
    opened # None =>
        LET of_head == View("O", None)
        IN  /\ BlockHash(opened.latest_block) = ViewHead(opened)
            /\ opened.payload = of_head.payload
            /\ opened.params = of_head.params
            /\ opened.nonce = of_head.nonce
            /\ opened.tree = of_head.tree

\* the pending claims and grants are those the latest commit was called on,
\* the grant sets untouched since
AsCommitted ==
    IF hist.commit = NoCommit THEN FALSE
    ELSE /\ claim_content_by_label = hist.commit.claims
         /\ caps_by_reader_pk = hist.commit.caps
         /\ caps_order = hist.commit.orders

\* C20: a commit leaves the pending claims and every pending grant set as
\* they were; when they are still those of the commit before, the new block
\* holds as many entries as the previous one and every principal reads from
\* it, label by label, what it read from the previous one; and pending claims
\* go away only all at once together with the grants and the cache (clear).
C20_CommitKeepsStaging ==
    [][/\ hist'.commits # hist.commits =>
             /\ claim_content_by_label' = claim_content_by_label
             /\ caps_by_reader_pk' = caps_by_reader_pk
             /\ AsCommitted =>
                   /\ Cardinality(DOMAIN HeadEntries') =
                          Cardinality(DOMAIN HeadEntries)
                   /\ \A v \in Principals, l \in Labels :
                          ViewGetItem(View(v, None), l)' =
                              ViewGetItem(View(v, None), l)
       /\ ~(DOMAIN claim_content_by_label \subseteq
                DOMAIN claim_content_by_label') =>
             /\ claim_content_by_label' = EmptyMap
             /\ caps_by_reader_pk' = [r \in Readers |-> {}]
             /\ vrf_value_by_label' = EmptyMap]_vars

\* set, grant and two commits one after the other under different nonces:
\* both blocks hold the claim and R1's capability
C20_Witness ==
    /\ calls = 4
    /\ Len(blocks) = 2
    /\ BlockNonce(1) # BlockNonce(2)
    /\ ViewGetItem(ViewAt(blocks[1], "R1", None), "email") = Ok("a@x")
    /\ ViewGetItem(ViewAt(blocks[2], "R1", None), "email") = Ok("a@x")
    /\ claim_content_by_label = [l \in {"email"} |-> "a@x"]
    /\ caps_by_reader_pk["R1"] = {"email"}

====
